---- MODULE Spec2Model ----
(***************************************************************************)
(* Model of backend.py: the lexicon scorer (score_sentiment), the          *)
(* recommender (recommendation) and the SQLite-backed store behind the     *)
(* /submit, /data and /summary routes.                                     *)
(*                                                                         *)
(* A text is a sequence of one-character strings.  Python's None is the    *)
(* value None below.  A Python float that the program computes as a        *)
(* quotient of two integers is kept as the reduced fraction [num, den]     *)
(* with den > 0, so that equal floats are equal values; means of floats    *)
(* are exact.                                                              *)
(*                                                                         *)
(* Spec is the store: each step is one whole request (the route and the    *)
(* teardown of its application context) or one call of init_db.  A step    *)
(* draws the posted form and the sqlite3 call that raises, if any.  The    *)
(* database starts without the entries table, as when the module is        *)
(* imported by a server and __main__ has not run.                          *)
(*                                                                         *)
(* SpecPure applies score_sentiment and recommendation to drawn arguments. *)
(***************************************************************************)
EXTENDS Integers, Sequences, FiniteSets, TLC

VARIABLES
    tableExists,  \* the entries table exists in wellness.db
    entries,      \* committed rows of the table, in rowid order
    g,            \* flask.g of the last request, after teardown
    opened,       \* connections opened by the last operation
    resp,         \* what the last operation returned
    accepted,     \* log of the (rating, note, timestamp) of each submit that returned 200
    inText,       \* argument of the pure-function calls
    inRating,
    inSent,
    out           \* result of the last pure-function call

vars == <<tableExists, entries, g, opened, resp, accepted, inText, inRating, inSent, out>>

storeVars == <<tableExists, entries, g, opened, resp, accepted>>

pureVars == <<inText, inRating, inSent, out>>

----------------------------------------------------------------------------
(* Bounds *)

MaxEntries == 3

MaxCount == 5

----------------------------------------------------------------------------
(* Characters and strings *)

None == <<"<None>">>

Whitespace == {" ", "\t", "\n"}

LowerMap ==
    ("A" :> "a") @@ ("B" :> "b") @@ ("C" :> "c") @@ ("D" :> "d") @@ ("E" :> "e") @@
    ("F" :> "f") @@ ("G" :> "g") @@ ("H" :> "h") @@ ("I" :> "i") @@ ("J" :> "j") @@
    ("K" :> "k") @@ ("L" :> "l") @@ ("M" :> "m") @@ ("N" :> "n") @@ ("O" :> "o") @@
    ("P" :> "p") @@ ("Q" :> "q") @@ ("R" :> "r") @@ ("S" :> "s") @@ ("T" :> "t") @@
    ("U" :> "u") @@ ("V" :> "v") @@ ("W" :> "w") @@ ("X" :> "x") @@ ("Y" :> "y") @@
    ("Z" :> "z")

\* str.lower() on the ASCII alphabet
lower(s) == [i \in 1..Len(s) |-> IF s[i] \in DOMAIN LowerMap THEN LowerMap[s[i]] ELSE s[i]]

RECURSIVE lstrip(_, _)
lstrip(s, chars) ==
    IF s # <<>> /\ Head(s) \in chars THEN lstrip(Tail(s), chars) ELSE s

RECURSIVE rstrip(_, _)
rstrip(s, chars) ==
    IF s # <<>> /\ s[Len(s)] \in chars THEN rstrip(SubSeq(s, 1, Len(s) - 1), chars) ELSE s

\* str.strip(chars): removes the characters at both ends
strip(s, chars) == rstrip(lstrip(s, chars), chars)

\* str.split(): the maximal runs of non-whitespace characters
RECURSIVE SplitFrom(_, _, _)
SplitFrom(s, cur, acc) ==
    IF s = <<>> THEN (IF cur = <<>> THEN acc ELSE Append(acc, cur))
    ELSE IF Head(s) \in Whitespace
         THEN SplitFrom(Tail(s), <<>>, IF cur = <<>> THEN acc ELSE Append(acc, cur))
         ELSE SplitFrom(Tail(s), Append(cur, Head(s)), acc)

split(s) == SplitFrom(s, <<>>, <<>>)

\* the characters of s as one string, to compare with the words of the lexicon
RECURSIVE Join(_)
Join(s) == IF s = <<>> THEN "" ELSE Head(s) \o Join(Tail(s))

\* "needle in s"
Contains(s, needle) ==
    \E i \in 1..(Len(s) - Len(needle) + 1) : SubSeq(s, i, i + Len(needle) - 1) = needle

----------------------------------------------------------------------------
(* Numbers *)

Abs(n) == IF n < 0 THEN -n ELSE n

RECURSIVE GCD(_, _)
GCD(a, b) == IF b = 0 THEN a ELSE GCD(b, a % b)

\* the quotient n / d (d > 0) as a reduced fraction
Frac(n, d) ==
    LET k == GCD(Abs(n), d)
    IN  [num |-> n \div k, den |-> d \div k]

Zero == Frac(0, 1)

FracAdd(a, b) == Frac(a.num * b.den + b.num * a.den, a.den * b.den)

FracDivInt(a, n) == Frac(a.num, a.den * n)

FracLess(a, b) == a.num * b.den < b.num * a.den

\* the float literal -0.2; (pos - neg) / total is below it exactly when the
\* exact quotient is below -1/5 (the quotient -1/5 rounds to the same float)
MinusPointTwo == Frac(-1, 5)

----------------------------------------------------------------------------
(* Lexicon and scorer *)

POSITIVE ==
    {"happy", "good", "great", "awesome", "calm", "relaxed", "grateful",
     "energetic", "motivated", "hopeful"}

NEGATIVE ==
    {"sad", "depressed", "anxious", "stressed", "angry", "lonely", "tired", "hopeless"}

StripChars == {".", ",", "!", "?"}

\* a token with only its trailing punctuation removed, lowercased
StripTrailingOnly(w) == Join(lower(rstrip(w, StripChars)))

\* w.strip('.,!?').lower()
Normalise(w) == Join(lower(strip(w, StripChars)))

tokens(text) ==
    LET words == split(text)
    IN  [i \in 1..Len(words) |-> Normalise(words[i])]

CountIn(toks, words) == Cardinality({i \in 1..Len(toks) : toks[i] \in words})

pos(text) == CountIn(tokens(text), POSITIVE)

neg(text) == CountIn(tokens(text), NEGATIVE)

\* n / d as Python evaluates it: d = 0 raises ZeroDivisionError
ZeroDivisionError == [num |-> 0, den |-> 0]

TrueDiv(n, d) == IF d = 0 THEN ZeroDivisionError ELSE Frac(n, d)

\* "not text": None and the empty string are falsy
Falsy(text) == text = None \/ text = <<>>

\* the scorer without its "if total == 0" return
ScoreNoZeroGuard(text) ==
    IF Falsy(text) THEN Zero
    ELSE LET toks == tokens(text)
             p    == CountIn(toks, POSITIVE)
             n    == CountIn(toks, NEGATIVE)
         IN  TrueDiv(p - n, p + n)

score_sentiment(text) ==
    IF Falsy(text) THEN Zero
    ELSE LET toks  == tokens(text)
             p     == CountIn(toks, POSITIVE)
             n     == CountIn(toks, NEGATIVE)
             total == p + n
         IN  IF total = 0 THEN Zero
             ELSE TrueDiv(p - n, total)

----------------------------------------------------------------------------
(* Recommender *)

TipBreathe == "Try a 5-minute breathing exercise or short walk."

TipReachOut == "If this persists, consider reaching out to a friend or professional."

TipGratitude == "Great! Keep a short gratitude list today."

\* the source has an em dash where this string has a hyphen
TipSleep == "Aim for consistent sleep schedule - wind down 30 mins before bed."

Sleep == <<"s", "l", "e", "e", "p">>

LowMood(rating, sentiment) == rating <= 3 \/ FracLess(sentiment, MinusPointTwo)

HasSleep(text) == Contains(lower(text), Sleep)

\* the recommender with the sleep tip put first
RecommendSleepFirst(rating, sentiment, text) ==
    LET tips1 == IF LowMood(rating, sentiment)
                 THEN <<TipBreathe, TipReachOut>>
                 ELSE <<TipGratitude>>
    IN  IF HasSleep(text) THEN <<TipSleep>> \o tips1 ELSE tips1

recommendation(rating, sentiment, text) ==
    LET tips1 == IF LowMood(rating, sentiment)
                 THEN <<TipBreathe, TipReachOut>>
                 ELSE <<TipGratitude>>
    IN  IF HasSleep(text) THEN Append(tips1, TipSleep) ELSE tips1

----------------------------------------------------------------------------
(* datetime.isoformat() and int() *)

Digits == <<"0", "1", "2", "3", "4", "5", "6", "7", "8", "9">>

\* n as width decimal digits, zero-padded (the %0*d of isoformat)
RECURSIVE Pad(_, _)
Pad(n, width) ==
    IF width = 0 THEN <<>> ELSE Append(Pad(n \div 10, width - 1), Digits[(n % 10) + 1])

\* datetime.isoformat() of a naive datetime: YYYY-MM-DDTHH:MM:SS, followed by
\* .ffffff when the microsecond is not 0
isoformat(t) ==
    Pad(t.year, 4) \o <<"-">> \o Pad(t.month, 2) \o <<"-">> \o Pad(t.day, 2) \o <<"T">> \o
    Pad(t.hour, 2) \o <<":">> \o Pad(t.minute, 2) \o <<":">> \o Pad(t.second, 2) \o
    (IF t.microsecond = 0 THEN <<>> ELSE <<".">> \o Pad(t.microsecond, 6))

\* s[:n]
Prefix(s, n) == SubSeq(s, 1, IF Len(s) < n THEN Len(s) ELSE n)

DigitValue(c) == CHOOSE d \in 0..9 : Digits[d + 1] = c

IsDigit(c) == \E d \in 0..9 : Digits[d + 1] = c

RECURSIVE DecimalValue(_)
DecimalValue(s) ==
    IF s = <<>> THEN 0
    ELSE 10 * DecimalValue(SubSeq(s, 1, Len(s) - 1)) + DigitValue(s[Len(s)])

\* int(s) for a str of ASCII characters: surrounding whitespace is ignored, one
\* sign is allowed, then one or more digits; anything else raises ValueError
int(s) ==
    LET body   == strip(s, Whitespace)
        signed == body # <<>> /\ Head(body) \in {"+", "-"}
        digs   == IF signed THEN Tail(body) ELSE body
    IN  IF digs # <<>> /\ \A i \in 1..Len(digs) : IsDigit(digs[i])
        THEN [ok |-> TRUE,
              val |-> IF signed /\ Head(body) = "-" THEN -DecimalValue(digs)
                      ELSE DecimalValue(digs)]
        ELSE [ok |-> FALSE, val |-> 0]

----------------------------------------------------------------------------
(* sqlite3 connections and the request context *)

NoConn == [state |-> "none", tx |-> <<>>]

\* flask.g at the start of a request
FreshG == [database |-> NoConn]

\* sqlite3.connect(DB)
connect == [state |-> "open", tx |-> <<>>]

\* get_db(): connects on first use and keeps the connection in g; a failing
\* connect raises before g is assigned
get_db(gg, fail) ==
    IF gg.database.state # "none" THEN [g |-> gg, raised |-> FALSE, opened |-> 0]
    ELSE IF fail THEN [g |-> gg, raised |-> TRUE, opened |-> 0]
    ELSE [g |-> [gg EXCEPT !.database = connect], raised |-> FALSE, opened |-> 1]

\* Connection.close(): the uncommitted transaction is rolled back
close(conn) == [state |-> "closed", tx |-> <<>>]

\* teardown without the close
CloseConnectionNoop(gg) == gg

\* close_connection(exception), run by Flask when the application context ends
close_connection(gg) ==
    IF gg.database.state # "none" THEN [gg EXCEPT !.database = close(gg.database)] ELSE gg

\* INSERT OR REPLACE with the id of the newest row
ExecuteInsertReplace(conn, rows, date, rating, note, sentiment) ==
    [conn EXCEPT !.tx = Append(conn.tx,
        [id |-> IF Len(rows) > 0 THEN Len(rows) ELSE 1,
         date |-> date, rating |-> rating, note |-> note, sentiment |-> sentiment])]

\* an INSERT that leaves the sentiment column at 0.0
ExecuteInsertNoSentiment(conn, rows, date, rating, note, sentiment) ==
    [conn EXCEPT !.tx = Append(conn.tx,
        [id |-> Len(rows) + Len(conn.tx) + 1,
         date |-> date, rating |-> rating, note |-> note, sentiment |-> Zero])]

\* db.execute('INSERT INTO entries(date,rating,note,sentiment) VALUES(?,?,?,?)'):
\* the row joins the connection's open transaction; id INTEGER PRIMARY KEY is
\* one more than the largest id in use
execute_insert(conn, rows, date, rating, note, sentiment) ==
    [conn EXCEPT !.tx = Append(conn.tx,
        [id |-> Len(rows) + Len(conn.tx) + 1,
         date |-> date, rating |-> rating, note |-> note, sentiment |-> sentiment])]

\* the table after the rows of a transaction are written: a row replaces the
\* row with its id, or is added
RECURSIVE Write(_, _)
Write(rows, tx) ==
    IF tx = <<>> THEN rows
    ELSE LET r == Head(tx)
         IN  Write(IF \E i \in 1..Len(rows) : rows[i].id = r.id
                   THEN [i \in 1..Len(rows) |-> IF rows[i].id = r.id THEN r ELSE rows[i]]
                   ELSE Append(rows, r),
                   Tail(tx))

\* a commit that raises after its rows have reached the table
CommitNotAtomic(conn, rows, fail) ==
    [conn |-> [conn EXCEPT !.tx = <<>>], rows |-> Write(rows, conn.tx), raised |-> fail]

\* db.commit(): the transaction is written as a whole, or the call raises and
\* the transaction stays open
commit(conn, rows, fail) ==
    IF fail THEN [conn |-> conn, rows |-> rows, raised |-> TRUE]
    ELSE [conn |-> [conn EXCEPT !.tx = <<>>], rows |-> Write(rows, conn.tx), raised |-> FALSE]

----------------------------------------------------------------------------
(* statistics.mean, statistics.median *)

RECURSIVE SumSeq(_)
SumSeq(s) == IF s = <<>> THEN 0 ELSE Head(s) + SumSeq(Tail(s))

RECURSIVE FracSum(_)
FracSum(s) == IF s = <<>> THEN Zero ELSE FracAdd(Head(s), FracSum(Tail(s)))

RECURSIVE InsertSorted(_, _)
InsertSorted(x, s) ==
    IF s = <<>> THEN <<x>>
    ELSE IF x <= Head(s) THEN <<x>> \o s
    ELSE <<Head(s)>> \o InsertSorted(x, Tail(s))

RECURSIVE sorted(_)
sorted(s) == IF s = <<>> THEN <<>> ELSE InsertSorted(Head(s), sorted(Tail(s)))

mean(s) == Frac(SumSeq(s), Len(s))

meanOfFloats(s) == FracDivInt(FracSum(s), Len(s))

\* statistics.median_high: the larger of the two middle values
MedianHigh(s) == Frac(sorted(s)[(Len(s) \div 2) + 1], 1)

\* statistics.median: the middle value, or the average of the two middle values
median(s) ==
    LET data == sorted(s)
        n    == Len(s)
        i    == n \div 2
    IN  IF n % 2 = 1 THEN Frac(data[i + 1], 1)
        ELSE Frac(data[i] + data[i + 1], 2)

----------------------------------------------------------------------------
(* Routes *)

Response(op, status, body) == [op |-> op, status |-> status, body |-> body]

Outcome(rows, gg, n, r) == [rows |-> rows, g |-> gg, opened |-> n, resp |-> r]

\* submit(): form is request.form, t is datetime.utcnow(), fail names the
\* sqlite3 call that raises ("none" when none does)
submit(rows, exists, form, t, fail) ==
    IF form.rating = None
    THEN Outcome(rows, FreshG, 0, Response("submit", "bad_request", <<>>))
    ELSE
      LET parsed == int(form.rating)
          rating == parsed.val
          note   == IF form.note = None THEN <<>> ELSE form.note
          sent   == score_sentiment(note)
          got    == get_db(FreshG, fail = "connect")
          conn1  == execute_insert(got.g.database, rows, isoformat(t), rating, note, sent)
          done   == commit(conn1, rows, fail = "commit")
      IN  IF ~parsed.ok
          THEN Outcome(rows, FreshG, 0, Response("submit", "error", <<>>))
          ELSE IF got.raised
          THEN Outcome(rows, got.g, got.opened, Response("submit", "error", <<>>))
          ELSE IF fail = "execute" \/ ~exists
          THEN Outcome(rows, got.g, got.opened, Response("submit", "error", <<>>))
          ELSE IF done.raised
          THEN Outcome(done.rows, [got.g EXCEPT !.database = done.conn], got.opened,
                       Response("submit", "error", <<>>))
          ELSE Outcome(done.rows, [got.g EXCEPT !.database = done.conn], got.opened,
                       Response("submit", "ok", recommendation(rating, sent, note)))

RECURSIVE InsertById(_, _)
InsertById(r, s) ==
    IF s = <<>> THEN <<r>>
    ELSE IF r.id <= Head(s).id THEN <<r>> \o s
    ELSE <<Head(s)>> \o InsertById(r, Tail(s))

\* ORDER BY id DESC
RECURSIVE OrderByIdDesc(_)
OrderByIdDesc(rows) ==
    IF rows = <<>> THEN <<>> ELSE Append(OrderByIdDesc(Tail(rows)), Head(rows))

\* ORDER BY id ASC
RECURSIVE OrderById(_)
OrderById(rows) ==
    IF rows = <<>> THEN <<>> ELSE InsertById(Head(rows), OrderById(Tail(rows)))

\* data()
data(rows, exists, fail) ==
    LET got == get_db(FreshG, fail = "connect")
        sel == OrderById(rows)
    IN  IF got.raised \/ fail = "execute" \/ ~exists
        THEN Outcome(rows, got.g, got.opened, Response("data", "error", <<>>))
        ELSE Outcome(rows, got.g, got.opened,
                     Response("data", "ok",
                              [i \in 1..Len(sel) |->
                                  [date |-> Prefix(sel[i].date, 10), rating |-> sel[i].rating]]))

\* summary()
summary(rows, exists, fail) ==
    LET got     == get_db(FreshG, fail = "connect")
        ratings == [i \in 1..Len(rows) |-> rows[i].rating]
        sents   == [i \in 1..Len(rows) |-> rows[i].sentiment]
    IN  IF got.raised \/ fail = "execute" \/ ~exists
        THEN Outcome(rows, got.g, got.opened, Response("summary", "error", <<>>))
        ELSE IF rows = <<>>
        THEN Outcome(rows, got.g, got.opened, Response("summary", "ok", [count |-> 0]))
        ELSE Outcome(rows, got.g, got.opened,
                     Response("summary", "ok",
                              [count |-> Len(rows),
                               avg_rating |-> mean(ratings),
                               median_rating |-> median(ratings),
                               avg_sentiment |-> meanOfFloats(sents)]))

\* DROP TABLE followed by CREATE TABLE
InitDbRecreate(rows, exists, fail) ==
    IF fail # "none" THEN [exists |-> exists, rows |-> rows, raised |-> TRUE]
    ELSE [exists |-> TRUE, rows |-> <<>>, raised |-> FALSE]

\* init_db(): CREATE TABLE IF NOT EXISTS entries(...)
init_db(rows, exists, fail) ==
    IF fail # "none" THEN [exists |-> exists, rows |-> rows, raised |-> TRUE]
    ELSE [exists |-> TRUE, rows |-> rows, raised |-> FALSE]

----------------------------------------------------------------------------
(* The store as a state machine *)

RatingTwo == <<"2">>

RatingFive == <<" ", "5">>

RatingMinusOne == <<"-", "1">>

RatingEmpty == <<>>

RatingDecimal == <<"4", ".", "5">>

RatingWord == <<"o", "k">>

NoteSadSleep == <<"s", "a", "d", " ", "S", "l", "e", "e", "p">>

\* a form without the note field, and one with it
NoteForms == {None, NoteSadSleep}

\* the forms posted to /submit: every rating that parses with every note, and
\* the ratings that do not parse
Forms ==
    [rating : {RatingTwo, RatingFive, RatingMinusOne}, note : NoteForms] \cup
    {[rating |-> None, note |-> NoteSadSleep],
     [rating |-> RatingEmpty, note |-> None],
     [rating |-> RatingDecimal, note |-> NoteSadSleep],
     [rating |-> RatingWord, note |-> None]}

\* datetime.utcnow(): the clock moves on between submits; the reading taken
\* when n rows are stored.  Every second reading falls on a whole second.
utcnow(n) ==
    [year |-> 2024, month |-> 1 + n, day |-> IF n % 2 = 0 THEN 28 ELSE 1,
     hour |-> 23 - n, minute |-> 59, second |-> 7 * n,
     microsecond |-> IF n % 2 = 0 THEN 999999 - n ELSE 0]

SubmitFails == {"none", "connect", "execute", "commit"}

QueryFails == {"none", "connect", "execute"}

InitFails == {"none", "execute"}

NoResponse == Response("none", "ok", <<>>)

Init ==
    /\ tableExists = FALSE
    /\ entries = <<>>
    /\ g = FreshG
    /\ opened = 0
    /\ resp = NoResponse
    /\ accepted = <<>>
    /\ inText = <<>>
    /\ inRating = 0
    /\ inSent = Zero
    /\ out = [fn |-> "none"]

\* a request to a route, followed by the teardown of its application context
Finish(o) ==
    /\ entries' = o.rows
    /\ g' = close_connection(o.g)
    /\ opened' = o.opened
    /\ resp' = o.resp

\* init_db() uses a connection of its own, not the one of g
InitDb ==
    \E fail \in InitFails :
        LET o == init_db(entries, tableExists, fail)
        IN  /\ tableExists' = o.exists
            /\ entries' = o.rows
            /\ resp' = Response("init_db", IF o.raised THEN "error" ELSE "ok", <<>>)
            /\ g' = FreshG
            /\ opened' = 1
            /\ UNCHANGED <<accepted, pureVars>>

Submit ==
    \E form \in Forms, fail \in SubmitFails :
        LET t == utcnow(Len(entries))
            o == submit(entries, tableExists, form, t, fail)
        IN  /\ o.resp.status = "ok" => Len(entries) < MaxEntries
            /\ Finish(o)
            /\ accepted' = IF o.resp.status = "ok"
                           THEN Append(accepted, [form |-> form, now |-> t])
                           ELSE accepted
            /\ UNCHANGED <<tableExists, pureVars>>

Data ==
    \E fail \in QueryFails :
        /\ Finish(data(entries, tableExists, fail))
        /\ UNCHANGED <<tableExists, accepted, pureVars>>

Summary ==
    \E fail \in QueryFails :
        /\ Finish(summary(entries, tableExists, fail))
        /\ UNCHANGED <<tableExists, accepted, pureVars>>

Next == InitDb \/ Submit \/ Data \/ Summary

Spec == Init /\ [][Next]_vars

----------------------------------------------------------------------------
(* Properties of the store *)

Range(s) == {s[i] : i \in 1..Len(s)}

\* C1: the store is append-only: every step keeps each stored entry, with the
\* same id, timestamp, rating, note and sentiment, at its place.
AppendOnly ==
    [][/\ Len(entries') >= Len(entries)
       /\ SubSeq(entries', 1, Len(entries)) = entries]_vars

\* the store is full and a later operation has run and failed
AppendOnlyWitness ==
    /\ Len(entries) = MaxEntries
    /\ resp.op = "summary"
    /\ resp.status = "error"

\* C2: the stored sentiment of every entry is the score of its stored note.
SentimentMatchesNote ==
    \A i \in 1..Len(entries) : entries[i].sentiment = score_sentiment(entries[i].note)

SentimentMatchesNoteWitness ==
    /\ Len(entries) >= 2
    /\ \E i \in 1..Len(entries) :
          entries[i].note = NoteSadSleep /\ entries[i].sentiment = Frac(-1, 1)
    /\ \E i \in 1..Len(entries) : entries[i].note = <<>> /\ entries[i].sentiment = Zero

\* the forms whose rating is missing or is not an integer
MalformedForms == {form \in Forms : form.rating = None \/ ~int(form.rating).ok}

\* C3: a submit adds exactly one complete entry and answers ok, or adds
\* nothing; a rating that does not parse is rejected before any write, and no
\* transaction stays open behind a request.
SubmitAllOrNothing ==
    /\ [](\A form \in MalformedForms, fail \in SubmitFails :
             LET o == submit(entries, tableExists, form, utcnow(Len(entries)), fail)
             IN  o.rows = entries /\ o.resp.status # "ok" /\ o.opened = 0)
    /\ [][/\ g'.database.tx = <<>>
          /\ resp'.op = "submit" =>
                \/ /\ resp'.status # "ok"
                   /\ entries' = entries
                \/ /\ resp'.status = "ok"
                   /\ Len(entries') = Len(entries) + 1
                   /\ SubSeq(entries', 1, Len(entries)) = entries
                   /\ DOMAIN entries'[Len(entries')] = {"id", "date", "rating", "note", "sentiment"}
                   /\ entries'[Len(entries')].date = isoformat(utcnow(Len(entries)))]_vars

\* a submit failed in the storage layer after entries had been stored
SubmitAllOrNothingWitness ==
    /\ resp.op = "submit"
    /\ resp.status = "error"
    /\ opened = 1
    /\ Len(entries) = 2

DateOf(t) == Pad(t.year, 4) \o <<"-">> \o Pad(t.month, 2) \o <<"-">> \o Pad(t.day, 2)

\* C4: /data returns one item per stored entry, in the order of the submits,
\* the i-th with the rating of the i-th accepted submit and the first ten
\* characters (the date) of its stored timestamp.
SeriesInInsertionOrder ==
    (resp.op = "data" /\ resp.status = "ok") =>
        /\ Len(resp.body) = Len(entries)
        /\ Len(resp.body) = Len(accepted)
        /\ \A i \in 1..Len(resp.body) :
              /\ resp.body[i].rating = int(accepted[i].form.rating).val
              /\ Len(resp.body[i].date) = 10
              /\ resp.body[i].date = SubSeq(entries[i].date, 1, 10)
              /\ resp.body[i].date = DateOf(accepted[i].now)

SeriesInInsertionOrderWitness ==
    /\ resp.op = "data"
    /\ resp.status = "ok"
    /\ Len(resp.body) >= 2
    /\ resp.body[1].rating # resp.body[2].rating
    /\ resp.body[1].date # resp.body[2].date

StoredRatings == [i \in 1..Len(entries) |-> entries[i].rating]

\* the k-th smallest stored rating, by counting
KthRating(k) ==
    CHOOSE v \in Range(StoredRatings) :
        /\ Cardinality({i \in 1..Len(entries) : entries[i].rating < v}) < k
        /\ Cardinality({i \in 1..Len(entries) : entries[i].rating <= v}) >= k

RECURSIVE TotalRating(_)
TotalRating(n) == IF n = 0 THEN 0 ELSE TotalRating(n - 1) + entries[n].rating

\* numerator of the sum of the first n sentiments over the denominator d
RECURSIVE TotalSentimentOver(_, _)
TotalSentimentOver(n, d) ==
    IF n = 0 THEN 0
    ELSE TotalSentimentOver(n - 1, d) + entries[n].sentiment.num * (d \div entries[n].sentiment.den)

RECURSIVE DenProduct(_)
DenProduct(n) == IF n = 0 THEN 1 ELSE DenProduct(n - 1) * entries[n].sentiment.den

\* C5: /summary returns only count = 0 exactly when the store is empty;
\* otherwise the count, the mean and the median of the ratings (for an even
\* count the average of the two middle values) and the mean of the sentiments.
SummaryStatistics ==
    /\ median(<<1, 2, 3, 4>>) = Frac(5, 2)
    /\ (resp.op = "summary" /\ resp.status = "ok") =>
          LET n == Len(entries)
              b == resp.body
          IN  /\ b.count = n
              /\ (DOMAIN b = {"count"}) <=> (n = 0)
              /\ n > 0 =>
                    /\ DOMAIN b = {"count", "avg_rating", "median_rating", "avg_sentiment"}
                    /\ b.avg_rating.den > 0
                    /\ b.avg_rating.num * n = TotalRating(n) * b.avg_rating.den
                    /\ b.median_rating.den > 0
                    /\ IF n % 2 = 1
                       THEN b.median_rating.num = KthRating((n + 1) \div 2) * b.median_rating.den
                       ELSE 2 * b.median_rating.num =
                                (KthRating(n \div 2) + KthRating((n \div 2) + 1)) * b.median_rating.den
                    /\ b.avg_sentiment.den > 0
                    /\ b.avg_sentiment.num * n * DenProduct(n) =
                           TotalSentimentOver(n, DenProduct(n)) * b.avg_sentiment.den

\* an even number of entries whose two middle ratings differ
SummaryStatisticsWitness ==
    /\ resp.op = "summary"
    /\ resp.status = "ok"
    /\ Len(entries) = 2
    /\ resp.body.median_rating = Frac(7, 2)
    /\ resp.body.avg_sentiment = Frac(-1, 2)

\* C9: a request opens at most one connection, and none is open once the
\* request has ended, whichever way it ended.
ConnectionScoped ==
    resp.op \in {"submit", "data", "summary"} =>
        /\ opened <= 1
        /\ g.database.state # "open"
        /\ (opened = 1) <=> (g.database.state = "closed")
        /\ (opened = 0) <=> (g.database.state = "none")

ConnectionScopedWitness ==
    /\ resp.op = "submit"
    /\ resp.status = "error"
    /\ tableExists
    /\ opened = 1
    /\ g.database.state = "closed"

\* C10: init_db creates the table when it is absent and changes nothing
\* otherwise; it never drops or alters stored entries, and running it twice
\* leaves what running it once leaves.
InitIdempotent ==
    [][/\ LET once  == init_db(entries, tableExists, "none")
              twice == init_db(once.rows, once.exists, "none")
          IN  /\ once.exists /\ once.rows = entries
              /\ twice.exists = once.exists /\ twice.rows = once.rows
       /\ resp'.op = "init_db" =>
             /\ entries' = entries
             /\ tableExists => tableExists'
             /\ resp'.status = "ok" => tableExists']_vars

InitIdempotentWitness ==
    /\ resp.op = "init_db"
    /\ resp.status = "ok"
    /\ Len(entries) = MaxEntries

----------------------------------------------------------------------------
(* The pure functions applied to drawn inputs *)

TxHappyGrateful == <<"I", " ", "a", "m", " ", "h", "a", "p", "p", "y", " ", "a", "n", "d", " ", "g", "r", "a", "t", "e", "f", "u", "l">>

TxSadAnxious == <<"I", " ", "a", "m", " ", "s", "a", "d", " ", "a", "n", "d", " ", "a", "n", "x", "i", "o", "u", "s">>

TxGreatDay == <<"g", "r", "e", "a", "t", " ", "d", "a", "y">>

TxBadSleep == <<"b", "a", "d", " ", "s", "l", "e", "e", "p", " ", "l", "a", "s", "t", " ", "n", "i", "g", "h", "t">>

TxHappyBang == <<"H", "a", "p", "p", "y", "!">>

TxLeadHappy == <<"?", "h", "a", "p", "p", "y">>

TxLeadSad == <<".", ".", ".", "s", "a", "d">>

TxHappySad == <<"h", "a", "p", "p", "y", " ", "s", "a", "d">>

TxInnerDot == <<"h", "a", "p", ".", "p", "y">>

TxSemicolon == <<"h", "a", "p", "p", "y", ";">>

TxSleepy == <<"S", "L", "E", "E", "P", "Y", " ", "b", "u", "t", " ", "c", "a", "l", "m", ",", "\t", "n", "o", "t", " ", "t", "i", "r", "e", "d">>

TxAsleep == <<"A", "s", "l", "e", "e", "p">>

TxMinusThird == <<"s", "a", "d", ",", " ", "t", "i", "r", "e", "d", " ", "b", "u", "t", " ", "c", "a", "l", "m">>

TxPlusThird == <<"h", "a", "p", "p", "y", " ", "g", "o", "o", "d", " ", "s", "a", "d">>

TxMinusFifth == <<"s", "a", "d", " ", "s", "a", "d", "\n", "s", "a", "d", " ", "h", "a", "p", "p", "y", " ", "h", "a", "p", "p", "y">>

TxSpaced == <<"s", "l", "e", "e", " ", "p">>

TxBlank == <<" ">>

TxPunctOnly == <<"!", "?">>

TxStem == <<"h", "a", "p", "p", "i", "n", "e", "s", "s">>

Texts ==
    {None, <<>>, TxHappyGrateful, TxSadAnxious, TxGreatDay, TxBadSleep, TxHappyBang,
     TxLeadHappy, TxLeadSad, TxHappySad, TxInnerDot, TxSemicolon, TxSleepy, TxAsleep,
     TxMinusThird, TxPlusThird, TxMinusFifth, TxSpaced, TxBlank, TxPunctOnly, TxStem}

\* the form offers 1..5; the route accepts any integer
RatingLo == 1

RatingHi == 5

Ratings == (RatingLo - 1)..(RatingHi + 1)

\* the scores of texts with at most MaxCount lexicon words
Sentiments == UNION {{Frac(n, d) : n \in (-d)..d} : d \in 1..MaxCount}

NoCall == [fn |-> "none"]

InitPure ==
    /\ inText \in Texts
    /\ inRating \in Ratings
    /\ inSent \in Sentiments
    /\ out = NoCall
    /\ tableExists = FALSE
    /\ entries = <<>>
    /\ g = FreshG
    /\ opened = 0
    /\ resp = NoResponse
    /\ accepted = <<>>

CallScore ==
    /\ out' = [fn |-> "score_sentiment",
               val |-> score_sentiment(inText),
               pos |-> IF Falsy(inText) THEN 0 ELSE pos(inText),
               neg |-> IF Falsy(inText) THEN 0 ELSE neg(inText)]
    /\ UNCHANGED <<inText, inRating, inSent, storeVars>>

CallRecommendation ==
    /\ inText # None
    /\ out' = [fn |-> "recommendation", val |-> recommendation(inRating, inSent, inText)]
    /\ UNCHANGED <<inText, inRating, inSent, storeVars>>

NextPure == CallScore \/ CallRecommendation

SpecPure == InitPure /\ [][NextPure]_vars

----------------------------------------------------------------------------
(* Properties of the pure functions *)

SleepAnyCase == <<{"s", "S"}, {"l", "L"}, {"e", "E"}, {"e", "E"}, {"p", "P"}>>

\* text contains "sleep", whatever the case of its letters
MentionsSleep(text) ==
    \E i \in 1..Len(text) :
        /\ i + 4 <= Len(text)
        /\ \A k \in 1..5 : text[i + k - 1] \in SleepAnyCase[k]

\* C6: the advice is never empty; a rating of 3 or less, or a sentiment below
\* -0.2, gives the breathing tip and then the reach-out tip, and no gratitude
\* tip; otherwise the gratitude tip alone comes first; the sleep tip is there,
\* once and last, exactly when the text mentions sleep.
RecommendationShape ==
    out.fn = "recommendation" =>
        LET tips == out.val
            low  == inRating <= 3 \/ 5 * inSent.num < -inSent.den
            base == IF low THEN 2 ELSE 1
        IN  /\ Len(tips) >= 1
            /\ low => /\ tips[1] = TipBreathe
                      /\ tips[2] = TipReachOut
                      /\ TipGratitude \notin Range(tips)
            /\ ~low => /\ tips[1] = TipGratitude
                       /\ TipBreathe \notin Range(tips)
                       /\ TipReachOut \notin Range(tips)
            /\ (TipSleep \in Range(tips)) <=> MentionsSleep(inText)
            /\ MentionsSleep(inText) => Len(tips) = base + 1 /\ tips[Len(tips)] = TipSleep
            /\ ~MentionsSleep(inText) => Len(tips) = base

\* rating 2, sentiment 0.0, "bad sleep last night": three tips in order
RecommendationShapeWitness ==
    /\ out.fn = "recommendation"
    /\ inRating = 2
    /\ inSent = Zero
    /\ inText = TxBadSleep
    /\ out.val = <<TipBreathe, TipReachOut, TipSleep>>

\* C7: the score is exactly 0 for an empty or absent text, for a text without
\* lexicon words and for equal positive and negative counts; otherwise it is
\* (pos - neg) / (pos + neg); it lies in [-1, 1] and the call never raises.
ScoreValue ==
    out.fn = "score_sentiment" =>
        /\ out.val.den > 0
        /\ -out.val.den <= out.val.num /\ out.val.num <= out.val.den
        /\ (Falsy(inText) \/ out.pos + out.neg = 0 \/ out.pos = out.neg)
              => out.val = [num |-> 0, den |-> 1]
        /\ out.pos # out.neg
              => out.val.num * (out.pos + out.neg) = (out.pos - out.neg) * out.val.den
        /\ inText = TxHappyGrateful => out.val = [num |-> 1, den |-> 1]
        /\ inText = TxSadAnxious => out.val = [num |-> -1, den |-> 1]

\* two positive and three negative words: -1/5
ScoreValueWitness ==
    /\ out.fn = "score_sentiment"
    /\ inText = TxMinusFifth
    /\ out.pos = 2
    /\ out.neg = 3
    /\ out.val = [num |-> -1, den |-> 5]

AllIn(w, from, to, chars) == \A k \in from..to : w[k] \in chars

\* w is a word of words, in any case, between a run of punctuation before it
\* and a run of punctuation after it (either run may be empty)
MatchesBetweenPunctuation(w, words) ==
    \E a \in 0..Len(w) : \E b \in a..Len(w) :
        /\ AllIn(w, 1, a, StripChars)
        /\ AllIn(w, b + 1, Len(w), StripChars)
        /\ Join(lower(SubSeq(w, a + 1, b))) \in words

\* w is a word of words, in any case, followed by a run of punctuation
MatchesBeforePunctuation(w, words) ==
    \E b \in 0..Len(w) :
        /\ AllIn(w, b + 1, Len(w), StripChars)
        /\ Join(lower(SubSeq(w, 1, b))) \in words

CountBetweenPunctuation(text, words) ==
    LET ws == split(text)
    IN  Cardinality({i \in 1..Len(ws) : MatchesBetweenPunctuation(ws[i], words)})

CountBeforePunctuation(text, words) ==
    LET ws == split(text)
    IN  Cardinality({i \in 1..Len(ws) : MatchesBeforePunctuation(ws[i], words)})

\* C8 as stated: a token counts exactly when it is a lexicon word once its
\* trailing punctuation is stripped and it is lowercased.
TokensMatchAfterTrailingStrip ==
    (out.fn = "score_sentiment" /\ ~Falsy(inText)) =>
        /\ out.pos = CountBeforePunctuation(inText, POSITIVE)
        /\ out.neg = CountBeforePunctuation(inText, NEGATIVE)

\* C8, amended: a token counts exactly when it is a lexicon word once the
\* punctuation at both of its ends is stripped and it is lowercased.
TokensMatchAfterStrip ==
    (out.fn = "score_sentiment" /\ ~Falsy(inText)) =>
        /\ out.pos = CountBetweenPunctuation(inText, POSITIVE)
        /\ out.neg = CountBetweenPunctuation(inText, NEGATIVE)

\* "?happy" is counted as a positive word
TokensMatchAfterStripWitness ==
    /\ out.fn = "score_sentiment"
    /\ inText = TxLeadHappy
    /\ out.pos = 1
    /\ out.val = [num |-> 1, den |-> 1]

====
